---- MODULE Spec2Model ----
(***************************************************************************)
(* The match_same_arms lint (clippy_lints/src/matches/match_same_arms.rs): *)
(* range arithmetic, the overlap predicate on canonical patterns, the      *)
(* blocking indexes of an arm list and the pairwise predicate `eq`.        *)
(***************************************************************************)
EXTENDS Integers, Sequences, FiniteSets, TLC

VARIABLES
    rq,     \* a range query: the range, the point and the two answers
    oq,     \* an overlap query: the two canonical patterns and the answer
    arms,   \* check: the arms of the match, indexed from 0
    pc,     \* check: "start", "search", "eq_expr", "bindings_eq", "returned" or "panicked"
    forwards_blocking_idxs,     \* check: per arm, the first later arm it overlaps
    backwards_blocking_idxs,    \* check: per arm, the last earlier arm it overlaps
    lindex, \* eq: index of the left arm
    rindex, \* eq: index of the right arm
    local_map,  \* eq: left binding -> right binding
    pos,    \* eq: the leaf pair of the two bodies SpanlessEq compares next
    result  \* eq: the value eq returned

qvars == <<rq, oq>>

cvars == <<arms, pc, forwards_blocking_idxs, backwards_blocking_idxs,
           lindex, rindex, local_map, pos, result>>

vars == <<rq, oq, arms, pc, forwards_blocking_idxs, backwards_blocking_idxs,
          lindex, rindex, local_map, pos, result>>

----------------------------------------------------------------------------
(* Bounds *)

\* largest range endpoint / point of the range queries
MaxInt == 3
\* largest integer literal inside the patterns of the overlap queries
MaxLit == 1
\* longest element list of a Sequence pattern of the overlap queries
MaxLen == 2
\* most arms of a match over integers or slices
MaxArms == 3
\* largest integer literal in the arms of a match over integers
MaxArmLit == 1
\* most arms of a match over a tuple struct, whose arms bind variables
MaxBindingArms == 2

----------------------------------------------------------------------------
(* Option<T>: None is the empty sequence, Some(x) the sequence <<x>> *)

None == <<>>

Some(x) == <<x>>

Min(a, b) == IF a <= b THEN a ELSE b

Reverse(s) == [k \in 1..Len(s) |-> s[Len(s) + 1 - k]]

----------------------------------------------------------------------------
(* PatRange *)

Included == "Included"

Excluded == "Excluded"

RangeEnd == {Included, Excluded}

PatRange(start, end, bounds) == [start |-> start, end |-> end, bounds |-> bounds]

contains(self, x) ==
    /\ x >= self.start
    /\ IF self.bounds = Included THEN x <= self.end ELSE x < self.end

is_empty(self) ==
    IF self.bounds = Included THEN FALSE ELSE self.start = self.end

\* overlaps with the two inclusiveness tests attached to the wrong sides
overlaps_swapped_bounds(self, other) ==
    /\ ~(is_empty(self) \/ is_empty(other))
    /\ IF other.bounds = Included THEN self.end >= other.start ELSE self.end > other.start
    /\ IF self.bounds = Included THEN self.start <= other.end ELSE self.start < other.end

overlaps(self, other) ==
    /\ ~(is_empty(self) \/ is_empty(other))
    /\ IF self.bounds = Included THEN self.end >= other.start ELSE self.end > other.start
    /\ IF other.bounds = Included THEN self.start <= other.end ELSE self.start < other.end

----------------------------------------------------------------------------
(* ResolvedPat *)

Wild == [kind |-> "Wild"]

Struct(path, fields) == [kind |-> "Struct", path |-> path, fields |-> fields]

Sequence(path, pats, wild_idx) ==
    [kind |-> "Sequence", path |-> path, pats |-> pats, wild_idx |-> wild_idx]

Or(pats) == [kind |-> "Or", pats |-> pats]

Path(path) == [kind |-> "Path", path |-> path]

LitStr(sym) == [kind |-> "LitStr", val |-> sym]

LitBytes(bytes) == [kind |-> "LitBytes", val |-> bytes]

LitInt(val) == [kind |-> "LitInt", val |-> val]

LitBool(val) == [kind |-> "LitBool", val |-> val]

Range(range) == [kind |-> "Range", range |-> range]

----------------------------------------------------------------------------
(* ResolvedPat::can_also_match.  The answer is "true" or "false", or       *)
(* "panic" when slice::split_at is called with an index past the end.      *)

Bool(b) == IF b THEN "true" ELSE "false"

\* pats.split_at(idx); it panics (ok = FALSE) when idx > len
split_at(pats, idx) ==
    IF idx > Len(pats)
    THEN [ok |-> FALSE, front |-> <<>>, back |-> <<>>]
    ELSE [ok |-> TRUE, front |-> SubSeq(pats, 1, idx), back |-> SubSeq(pats, idx + 1, Len(pats))]

\* split_section without the `.or(other_idx)`: only the side's own rest index
split_section_own_idx(pats, wild_idx, other_idx) ==
    IF wild_idx = None
    THEN [ok |-> TRUE, front |-> pats, back |-> <<>>]
    ELSE split_at(pats, wild_idx[1])

\* wild_idx.or(other_idx).map_or((pats, []), |idx| pats.split_at(idx))
split_section(pats, wild_idx, other_idx) ==
    LET idx == IF wild_idx # None THEN wild_idx ELSE other_idx
    IN  IF idx = None
        THEN [ok |-> TRUE, front |-> pats, back |-> <<>>]
        ELSE split_at(pats, idx[1])

RECURSIVE can_also_match(_, _), any_pat(_, _, _), all_zip(_, _, _), struct_join(_, _, _, _)

\* pats.iter().any(|pat| pat.can_also_match(other)), from the k-th pattern on
any_pat(pats, other, k) ==
    IF k > Len(pats)
    THEN "false"
    ELSE LET r == can_also_match(pats[k], other)
         IN  IF r = "false" THEN any_pat(pats, other, k + 1) ELSE r

\* l.iter().zip(r.iter()).all(|(lpat, rpat)| lpat.can_also_match(rpat)), from the k-th pair on
all_zip(l, r, k) ==
    IF k > Min(Len(l), Len(r))
    THEN "true"
    ELSE LET c == can_also_match(l[k], r[k])
         IN  IF c = "true" THEN all_zip(l, r, k + 1) ELSE c

\* the merge-join of two field lists sorted by name; a field is <<name, pat>>
struct_join(lfields, rfields, li, ri) ==
    IF li > Len(lfields)
    THEN "true"
    ELSE IF lfields[li][1] < rfields[ri][1]
    THEN struct_join(lfields, rfields, li + 1, ri)
    ELSE IF lfields[li][1] > rfields[ri][1]
    THEN IF ri + 1 > Len(rfields)
         THEN "true"
         ELSE struct_join(lfields, rfields, li, ri + 1)
    ELSE LET c == can_also_match(lfields[li][2], rfields[ri][2])
         IN  IF c # "true"
             THEN c
             ELSE IF ri + 1 > Len(rfields)
             THEN "true"
             ELSE struct_join(lfields, rfields, li + 1, ri + 1)

can_also_match(self, other) ==
    IF self.kind = "Wild" \/ other.kind = "Wild"
    THEN "true"
    ELSE IF self.kind = "Or"
    THEN any_pat(self.pats, other, 1)
    ELSE IF other.kind = "Or"
    THEN any_pat(other.pats, self, 1)
    ELSE IF self.kind = "Struct" /\ other.kind = "Struct"
    THEN IF self.path # other.path
         THEN "false"
         ELSE IF Len(other.fields) = 0
         THEN "true"
         ELSE struct_join(self.fields, other.fields, 1, 1)
    ELSE IF self.kind = "Sequence" /\ other.kind = "Sequence"
    THEN IF self.path # other.path
         THEN "false"
         ELSE LET l == split_section(self.pats, self.wild_idx, other.wild_idx)
                  r == split_section(other.pats, other.wild_idx, self.wild_idx)
              IN  IF ~l.ok \/ ~r.ok
                  THEN "panic"
                  ELSE LET front == all_zip(l.front, r.front, 1)
                       IN  IF front # "true"
                           THEN front
                           ELSE all_zip(Reverse(l.back), Reverse(r.back), 1)
    ELSE IF self.kind = "Path" /\ other.kind = "Path"
    THEN Bool(self.path = other.path)
    ELSE IF self.kind = other.kind /\ self.kind \in {"LitStr", "LitBytes", "LitInt", "LitBool"}
    THEN Bool(self.val = other.val)
    ELSE IF self.kind = "Range" /\ other.kind = "Range"
    THEN Bool(overlaps(self.range, other.range))
    ELSE IF self.kind = "Range" /\ other.kind = "LitInt"
    THEN Bool(contains(self.range, other.val))
    ELSE IF self.kind = "LitInt" /\ other.kind = "Range"
    THEN Bool(contains(other.range, self.val))
    ELSE "true"

----------------------------------------------------------------------------
(* Source patterns (rustc_hir::PatKind) with the path resolution of the     *)
(* lint context stored in the pattern, and ResolvedPat::from_pat            *)

\* a binding's HirId carries what the context answers about it: its owner
\* (0: the enclosing scope, i + 1: the pattern of arm i), its name and its type
HirId(owner, name, ty) == [owner |-> owner, name |-> name, ty |-> ty]

PWild == [kind |-> "Wild"]

PBinding(id, sub) == [kind |-> "Binding", id |-> id, sub |-> sub]

PBox(pat) == [kind |-> "Box", pat |-> pat]

PRef(pat) == [kind |-> "Ref", pat |-> pat]

PStruct(res, fields) == [kind |-> "Struct", res |-> res, fields |-> fields]

PTupleStruct(res, pats, wild_idx) ==
    [kind |-> "TupleStruct", res |-> res, pats |-> pats, wild_idx |-> wild_idx]

POr(pats) == [kind |-> "Or", pats |-> pats]

PPath(res) == [kind |-> "Path", res |-> res]

PTuple(pats, wild_idx) == [kind |-> "Tuple", pats |-> pats, wild_idx |-> wild_idx]

PLit(e) == [kind |-> "Lit", e |-> e]

PRange(start, end, bounds) == [kind |-> "Range", start |-> start, end |-> end, bounds |-> bounds]

PSlice(pats, wild, pats2) == [kind |-> "Slice", pats |-> pats, wild |-> wild, pats2 |-> pats2]

\* an expression in pattern position: ExprKind::Lit(lit) with lit.node, or
\* any other expression (node "NotLit")
Lit(node, val) == [node |-> node, val |-> val]

IntLit(val) == Lit("Int", val)

\* u128::MAX, cut to the largest integer of the model checker
U128_MAX == 2147483647

\* fields.sort_by_key(|&(name, _)| name): a stable sort of <<name, pat>> pairs
sort_by_key(fields) ==
    LET n == Len(fields)
        rank(i) == 1 + Cardinality({j \in 1..n :
                        \/ fields[j][1] < fields[i][1]
                        \/ fields[j][1] = fields[i][1] /\ j < i})
    IN  [k \in 1..n |-> fields[CHOOSE i \in 1..n : rank(i) = k]]

RECURSIVE from_pat(_)

from_pat(pat) ==
    CASE pat.kind = "Wild" -> Wild
      [] pat.kind = "Binding" ->
            IF pat.sub = None THEN Wild ELSE from_pat(pat.sub[1])
      [] pat.kind \in {"Box", "Ref"} -> from_pat(pat.pat)
      [] pat.kind = "Struct" ->
            Struct(pat.res,
                   sort_by_key([k \in 1..Len(pat.fields) |->
                                   <<pat.fields[k][1], from_pat(pat.fields[k][2])>>]))
      [] pat.kind = "TupleStruct" ->
            Sequence(pat.res, [k \in 1..Len(pat.pats) |-> from_pat(pat.pats[k])], pat.wild_idx)
      [] pat.kind = "Or" -> Or([k \in 1..Len(pat.pats) |-> from_pat(pat.pats[k])])
      [] pat.kind = "Path" -> Path(pat.res)
      [] pat.kind = "Tuple" ->
            Sequence(None, [k \in 1..Len(pat.pats) |-> from_pat(pat.pats[k])], pat.wild_idx)
      [] pat.kind = "Lit" ->
            CASE pat.e.node = "Str" -> LitStr(pat.e.val)
              [] pat.e.node = "ByteStr" -> LitBytes(pat.e.val)
              [] pat.e.node \in {"Byte", "Char", "Int"} -> LitInt(pat.e.val)
              [] pat.e.node = "Bool" -> LitBool(pat.e.val)
              [] OTHER -> Wild
      [] pat.kind = "Range" ->
            IF \/ pat.start # None /\ pat.start[1].node \notin {"Int", "Char", "Byte"}
               \/ pat.end # None /\ pat.end[1].node \notin {"Int", "Char", "Byte"}
            THEN Wild
            ELSE Range(PatRange(IF pat.start = None THEN 0 ELSE pat.start[1].val,
                                IF pat.end = None THEN U128_MAX ELSE pat.end[1].val,
                                IF pat.end = None THEN Included ELSE pat.bounds))
      [] pat.kind = "Slice" ->
            Sequence(None,
                     [k \in 1..Len(pat.pats) |-> from_pat(pat.pats[k])]
                        \o [k \in 1..Len(pat.pats2) |-> from_pat(pat.pats2[k])],
                     IF pat.wild = None THEN None ELSE Some(Len(pat.pats)))

----------------------------------------------------------------------------
(* Range queries: contains and overlaps applied to a range and a point *)

Ints == 0..MaxInt

Ranges == {PatRange(s, e, b) : s \in Ints, e \in Ints, b \in RangeEnd}

NoRangeQuery == [range |-> PatRange(0, 0, Included), x |-> 0, contained |-> None, overlapped |-> None]

NoOverlapQuery == [lpat |-> Wild, rpat |-> Wild, res |-> "idle"]

\* no match is being checked
NoCheck ==
    /\ arms = <<>>
    /\ pc = "idle"
    /\ forwards_blocking_idxs = <<>>
    /\ backwards_blocking_idxs = <<>>
    /\ lindex = 0
    /\ rindex = 0
    /\ local_map = <<>>
    /\ pos = 0
    /\ result = FALSE

InitRange ==
    /\ rq \in [range : Ranges, x : Ints, contained : {None}, overlapped : {None}]
    /\ oq = NoOverlapQuery
    /\ NoCheck

\* range.contains(x)
Contains ==
    /\ rq.contained = None
    /\ rq' = [rq EXCEPT !.contained = Some(contains(rq.range, rq.x))]
    /\ UNCHANGED <<oq, cvars>>

\* range.overlaps(&PatRange { start: x, end: x, bounds: Included })
Overlaps ==
    /\ rq.overlapped = None
    /\ rq' = [rq EXCEPT !.overlapped = Some(overlaps(rq.range, PatRange(rq.x, rq.x, Included)))]
    /\ UNCHANGED <<oq, cvars>>

NextRange == Contains \/ Overlaps

SpecRange == InitRange /\ [][NextRange]_vars

----------------------------------------------------------------------------
(* Overlap queries: can_also_match applied to two canonical patterns *)

\* all sequences over S of length at most n
Seqs(S, n) == UNION {[1..k -> S] : k \in 0..n}

Lits == {LitInt(v) : v \in 0..MaxLit}

Elems == {Wild} \cup Lits

LitRanges == {Range(PatRange(s, e, b)) : s \in 0..MaxLit, e \in 0..MaxLit, b \in RangeEnd}

DefIds == {None, Some(1), Some(2)}

Leaves ==
    {Wild} \cup Lits \cup LitRanges
        \cup {Path(d) : d \in DefIds}
        \cup {LitBool(TRUE), LitBool(FALSE), LitStr(1), LitBytes(<<1>>)}

\* tuples and slices: no constructor, a rest index anywhere up to the length
TuplePats ==
    UNION {{Sequence(None, s, w) : w \in {None} \cup {Some(i) : i \in 0..Len(s)}} :
           s \in Seqs(Elems, MaxLen)}

\* tuple structs: one field
TupleStructPats == {Sequence(d, <<e>>, None) : d \in {Some(1), Some(2)}, e \in Elems}

FieldNames == {1, 2}

\* field lists sorted by name without duplicates
FieldLists ==
    {fs \in Seqs(FieldNames \X Elems, Cardinality(FieldNames)) :
        \A i \in 1..Len(fs) : \A j \in 1..Len(fs) : i < j => fs[i][1] < fs[j][1]}

StructPats == {Struct(d, fs) : d \in {Some(1), Some(2)}, fs \in FieldLists}

\* the slice patterns [e] and [e, _, ..]
SliceAlts ==
    {Sequence(None, <<e>>, None) : e \in Elems}
        \cup {Sequence(None, <<e, Wild>>, Some(2)) : e \in Elems}

\* alternatives over integers, one of them an or-pattern itself
IntAlts == Lits \cup {Range(PatRange(0, MaxLit, Excluded)), Or(<<LitInt(0), Wild>>)}

\* or-patterns of two alternatives, over integers and over slices
OrPats ==
    {Or(<<a, b>>) : a \in IntAlts, b \in IntAlts}
        \cup {Or(<<a, b>>) : a \in SliceAlts, b \in SliceAlts}

Pats == Leaves \cup TuplePats \cup TupleStructPats \cup StructPats \cup OrPats

InitOverlap ==
    /\ oq \in [lpat : Pats, rpat : Pats, res : {"unset"}]
    /\ rq = NoRangeQuery
    /\ NoCheck

\* lpat.can_also_match(&rpat)
CanAlsoMatch ==
    /\ oq.res = "unset"
    /\ oq' = [oq EXCEPT !.res = can_also_match(oq.lpat, oq.rpat)]
    /\ UNCHANGED <<rq, cvars>>

NextOverlap == CanAlsoMatch

SpecOverlap == InitOverlap /\ [][NextOverlap]_vars

----------------------------------------------------------------------------
(* check: the blocking indexes (lines 20-49)                                *)

\* an arm: its pattern, whether it has a guard, and its body as the leaves
\* SpanlessEq walks in order; a leaf is a path to a local or a constant
Arm(pat, guard, body) == [pat |-> pat, guard |-> guard, body |-> body]

Local(name) == [kind |-> "Local", sym |-> name]

Const(val) == [kind |-> "Const", sym |-> val]

NumArms(as) == Cardinality(DOMAIN as)

resolved_pats(as) == [i \in DOMAIN as |-> from_pat(as[i].pat)]

RECURSIVE forwards_find(_, _, _)

\* resolved_pats[i + 1..] ... find_map(|(j, other)| pat.can_also_match(other).then(|| i + 1 + j))
\*     .unwrap_or(resolved_pats.len()), the search being at arm j; -1: it panicked
forwards_find(pats, i, j) ==
    IF j >= NumArms(pats)
    THEN NumArms(pats)
    ELSE LET c == can_also_match(pats[i], pats[j])
         IN  IF c = "true" THEN j
             ELSE IF c = "panic" THEN -1
             ELSE forwards_find(pats, i, j + 1)

forwards_blocking(pats) == [i \in DOMAIN pats |-> forwards_find(pats, i, i + 1)]

RECURSIVE backwards_find(_, _, _, _)

\* .find_map(|((j, other), forward_block)|
\*      (forward_block == i || pat.can_also_match(other)).then(|| j)).unwrap_or(0)
backwards_find(pats, fwd, i, j) ==
    IF j < 0
    THEN 0
    ELSE IF fwd[j] = i
    THEN j
    ELSE LET c == can_also_match(pats[i], pats[j])
         IN  IF c = "true" THEN j
             ELSE IF c = "panic" THEN -1
             ELSE backwards_find(pats, fwd, i, j - 1)

RECURSIVE backwards_skip_ge(_, _, _, _)

\* backwards_skip with skip_while(|&(_, forward_block)| forward_block >= i)
backwards_skip_ge(pats, fwd, i, j) ==
    IF j < 0
    THEN 0
    ELSE IF fwd[j] >= i
    THEN backwards_skip_ge(pats, fwd, i, j - 1)
    ELSE backwards_find(pats, fwd, i, j)

RECURSIVE backwards_skip(_, _, _, _)

\* resolved_pats[..i] ... .rev().zip(forwards_blocking_idxs[..i] ... .rev())
\*     .skip_while(|&(_, forward_block)| forward_block > i), the walk being at arm j
backwards_skip(pats, fwd, i, j) ==
    IF j < 0
    THEN 0
    ELSE IF fwd[j] > i
    THEN backwards_skip(pats, fwd, i, j - 1)
    ELSE backwards_find(pats, fwd, i, j)

backwards_blocking(pats, fwd) == [i \in DOMAIN pats |-> backwards_skip(pats, fwd, i, i - 1)]

\* lines 20-49: resolved_pats and the two index vectors; a panic of
\* can_also_match unwinds out of check
Resolve ==
    /\ pc = "start"
    /\ LET pats == resolved_pats(arms)
           fwd == forwards_blocking(pats)
       IN  IF \E i \in DOMAIN pats : fwd[i] = -1
           THEN /\ pc' = "panicked"
                /\ UNCHANGED <<forwards_blocking_idxs, backwards_blocking_idxs>>
           ELSE LET bwd == backwards_blocking(pats, fwd)
                IN  IF \E i \in DOMAIN pats : bwd[i] = -1
                    THEN /\ pc' = "panicked"
                         /\ UNCHANGED <<forwards_blocking_idxs, backwards_blocking_idxs>>
                    ELSE /\ pc' = "search"
                         /\ forwards_blocking_idxs' = fwd
                         /\ backwards_blocking_idxs' = bwd
    /\ UNCHANGED <<arms, lindex, rindex, local_map, pos, result, qvars>>

----------------------------------------------------------------------------
(* check: the pairwise predicate eq (lines 51-89)                           *)

RECURSIVE pat_bindings(_)

\* the bindings pat.walk_short and pat.each_binding_or_first visit: every
\* PatKind::Binding of the pattern, those of an or-pattern from its first
\* alternative
pat_bindings(pat) ==
    CASE pat.kind = "Binding" ->
            {pat.id} \cup (IF pat.sub = None THEN {} ELSE pat_bindings(pat.sub[1]))
      [] pat.kind \in {"Box", "Ref"} -> pat_bindings(pat.pat)
      [] pat.kind = "Struct" ->
            UNION {pat_bindings(pat.fields[k][2]) : k \in 1..Len(pat.fields)}
      [] pat.kind \in {"TupleStruct", "Tuple"} ->
            UNION {pat_bindings(pat.pats[k]) : k \in 1..Len(pat.pats)}
      [] pat.kind = "Or" -> IF pat.pats = <<>> THEN {} ELSE pat_bindings(pat.pats[1])
      [] pat.kind = "Slice" ->
            UNION {pat_bindings(pat.pats[k]) : k \in 1..Len(pat.pats)}
                \cup (IF pat.wild = None THEN {} ELSE pat_bindings(pat.wild[1]))
                \cup UNION {pat_bindings(pat.pats2[k]) : k \in 1..Len(pat.pats2)}
      [] OTHER -> {}

pat_contains_local(pat, id) == id \in pat_bindings(pat)

\* bindings_eq that only checks that no id is left over
bindings_eq_leftover_only(pat, ids) == ids \ pat_bindings(pat) = {}

\* every binding of the pattern is removed from ids, and ids ends empty
bindings_eq(pat, ids) ==
    /\ \A id \in pat_bindings(pat) : id \in ids
    /\ ids \ pat_bindings(pat) = {}

\* path_to_local: the HirId a leaf of arm i's body resolves to, or None; a
\* name the arm's pattern does not bind is a local of the enclosing scope
path_to_local(i, e) ==
    IF e.kind # "Local"
    THEN None
    ELSE LET own == {id \in pat_bindings(arms[i].pat) : id.name = e.sym}
         IN  IF own # {}
             THEN Some(CHOOSE id \in own : TRUE)
             ELSE Some(HirId(0, e.sym, "i32"))

keys(map) == DOMAIN map

values(map) == {map[k] : k \in DOMAIN map}

insert(map, k, v) == [x \in DOMAIN map \cup {k} |-> IF x = k THEN v ELSE map[x]]

\* eq_fallback whose occupied entry answers true whatever it holds
eq_fallback_occupied_true(a_id, b_id) ==
    IF a_id \in keys(local_map)
    THEN [eq |-> TRUE, map |-> local_map]
    ELSE IF /\ a_id.name = b_id.name
            /\ a_id.ty = b_id.ty
            /\ pat_contains_local(arms[lindex].pat, a_id)
            /\ pat_contains_local(arms[rindex].pat, b_id)
    THEN [eq |-> TRUE, map |-> insert(local_map, a_id, b_id)]
    ELSE [eq |-> FALSE, map |-> local_map]

\* eq_fallback without the comparison of the two names
eq_fallback_any_name(a_id, b_id) ==
    IF a_id \in keys(local_map)
    THEN [eq |-> local_map[a_id] = b_id, map |-> local_map]
    ELSE IF /\ a_id.ty = b_id.ty
            /\ pat_contains_local(arms[lindex].pat, a_id)
            /\ pat_contains_local(arms[rindex].pat, b_id)
    THEN [eq |-> TRUE, map |-> insert(local_map, a_id, b_id)]
    ELSE [eq |-> FALSE, map |-> local_map]

\* eq_fallback on two paths to locals (lines 56-77): its answer and the map after it
eq_fallback(a_id, b_id) ==
    IF a_id \in keys(local_map)
    THEN [eq |-> local_map[a_id] = b_id, map |-> local_map]
    ELSE IF /\ a_id.name = b_id.name
            /\ a_id.ty = b_id.ty
            /\ pat_contains_local(arms[lindex].pat, a_id)
            /\ pat_contains_local(arms[rindex].pat, b_id)
    THEN [eq |-> TRUE, map |-> insert(local_map, a_id, b_id)]
    ELSE [eq |-> FALSE, map |-> local_map]

\* the window test with min_index in the place of the second max_index
window_min_for_max(min_index, max_index) ==
    ~(backwards_blocking_idxs[max_index] > min_index /\ forwards_blocking_idxs[min_index] < min_index)

\* line 80: the two arms are not both blocked by an arm in between
window(min_index, max_index) ==
    ~(backwards_blocking_idxs[max_index] > min_index /\ forwards_blocking_idxs[min_index] < max_index)

\* the guard test looking at the left arm only
no_guards_lhs_only(lhs, rhs) == ~lhs.guard

\* lines 81-82: lhs.guard.is_none() && rhs.guard.is_none()
no_guards(lhs, rhs) == ~lhs.guard /\ ~rhs.guard

\* search_same hands eq a pair of arms: lines 52-55 and 80-82, up to the
\* call of SpanlessEq
Eq ==
    /\ pc = "search"
    /\ \E l \in DOMAIN arms, r \in DOMAIN arms :
        /\ l # r
        /\ lindex' = l
        /\ rindex' = r
        /\ local_map' = <<>>
        /\ IF window(Min(l, r), l + r - Min(l, r)) /\ no_guards(arms[l], arms[r])
           THEN /\ pc' = "eq_expr"
                /\ pos' = 1
                /\ UNCHANGED result
           ELSE /\ pc' = "returned"
                /\ pos' = 0
                /\ result' = FALSE
    /\ UNCHANGED <<arms, forwards_blocking_idxs, backwards_blocking_idxs, qvars>>

\* SpanlessEq::eq_expr on the next pair of leaves: equal leaves are equal,
\* two paths to different locals are handed to eq_fallback, and leaves left
\* over on one side make the bodies differ
EqExpr ==
    /\ pc = "eq_expr"
    /\ LET lbody == arms[lindex].body
           rbody == arms[rindex].body
       IN  IF pos > Len(lbody) \/ pos > Len(rbody)
           THEN /\ IF Len(lbody) = Len(rbody)
                   THEN pc' = "bindings_eq" /\ UNCHANGED result
                   ELSE pc' = "returned" /\ result' = FALSE
                /\ UNCHANGED <<local_map, pos>>
           ELSE LET a == path_to_local(lindex, lbody[pos])
                    b == path_to_local(rindex, rbody[pos])
                    same == IF a # None /\ b # None THEN a = b ELSE lbody[pos] = rbody[pos]
                    fb == IF ~same /\ a # None /\ b # None
                          THEN eq_fallback(a[1], b[1])
                          ELSE [eq |-> same, map |-> local_map]
                IN  /\ local_map' = fb.map
                    /\ IF fb.eq
                       THEN pc' = "eq_expr" /\ pos' = pos + 1 /\ UNCHANGED result
                       ELSE pc' = "returned" /\ pos' = pos /\ result' = FALSE
    /\ UNCHANGED <<arms, forwards_blocking_idxs, backwards_blocking_idxs, lindex, rindex, qvars>>

\* lines 87-88: the two bindings_eq tests that end eq
BindingsEq ==
    /\ pc = "bindings_eq"
    /\ pc' = "returned"
    /\ result' = (/\ bindings_eq(arms[lindex].pat, keys(local_map))
                  /\ bindings_eq(arms[rindex].pat, values(local_map)))
    /\ UNCHANGED <<arms, forwards_blocking_idxs, backwards_blocking_idxs,
                   lindex, rindex, local_map, pos, qvars>>

\* search_same keeps the pair when eq returned true, and the loop of lines
\* 92-128 lints it; the search goes on with another pair
Collect ==
    /\ pc = "returned"
    /\ pc' = "search"
    /\ lindex' = 0
    /\ rindex' = 0
    /\ local_map' = <<>>
    /\ pos' = 0
    /\ result' = FALSE
    /\ UNCHANGED <<arms, forwards_blocking_idxs, backwards_blocking_idxs, qvars>>

Next == Resolve \/ Eq \/ EqExpr \/ BindingsEq \/ Collect

----------------------------------------------------------------------------
(* The matches check is run on *)

\* patterns over an integer scrutinee: `_`, `v`, `v..=v`, `0..=MaxArmLit`
\* and `0 | MaxArmLit`
IntArmPats ==
    {PWild}
        \cup {PLit(IntLit(v)) : v \in 0..MaxArmLit}
        \cup {PRange(Some(IntLit(v)), Some(IntLit(v)), Included) : v \in 0..MaxArmLit}
        \cup {PRange(Some(IntLit(0)), Some(IntLit(MaxArmLit)), Included)}
        \cup {POr(<<PLit(IntLit(0)), PLit(IntLit(MaxArmLit))>>)}

\* patterns over a slice scrutinee: `[_]`, `[0]` and `[_, _, ..]`
SliceArmPats ==
    {PSlice(<<PWild>>, None, <<>>),
     PSlice(<<PLit(IntLit(0))>>, None, <<>>),
     PSlice(<<PWild, PWild>>, Some(PWild), <<>>)}

\* bodies without variables: "a" and "b"
ConstBodies == {<<Const("a")>>, <<Const("b")>>}

\* the binding `name` of arm i; both fields of the tuple struct are i32
Bind(i, name) == PBinding(HirId(i + 1, name, "i32"), None)

\* the field names of the patterns over a tuple struct P(i32, i32):
\* `P(x, _)`, `P(y, _)`, `P(x, y)`, `P(y, x)` and `P(_, _)`
BindingShapes == {<<"x", "_">>, <<"y", "_">>, <<"x", "y">>, <<"y", "x">>, <<"_", "_">>}

\* the pattern of arm i with these field names
BindingArmPat(i, shape) ==
    PTupleStruct(Some(1),
                 [k \in 1..Len(shape) |-> IF shape[k] = "_" THEN PWild ELSE Bind(i, shape[k])],
                 None)

\* bodies over the variables x and y: `x + 1`, `y + 1`, `1`, `x + y`, `x + x`
BindingBodies ==
    {<<Local("x"), Const("1")>>,
     <<Local("y"), Const("1")>>,
     <<Const("1")>>,
     <<Local("x"), Local("y")>>,
     <<Local("x"), Local("x")>>}

\* the arms of a match over integers, and over slices
ConstArms(pats) == {Arm(p, FALSE, b) : p \in pats, b \in ConstBodies}

InitCheck ==
    /\ pc = "start"
    /\ forwards_blocking_idxs = <<>>
    /\ backwards_blocking_idxs = <<>>
    /\ lindex = 0
    /\ rindex = 0
    /\ local_map = <<>>
    /\ pos = 0
    /\ result = FALSE
    /\ rq = NoRangeQuery
    /\ oq = NoOverlapQuery

\* matches over integers and over slices, without guards and variables
Init ==
    /\ \E pats \in {IntArmPats, SliceArmPats}, n \in 2..MaxArms :
            arms \in [0..(n - 1) -> ConstArms(pats)]
    /\ InitCheck

Spec == Init /\ [][Next]_vars

\* matches over a tuple struct whose arms bind variables and may have guards
InitBindings ==
    /\ \E n \in 2..MaxBindingArms :
         \E t \in [0..(n - 1) -> [shape : BindingShapes, guard : BOOLEAN, body : BindingBodies]] :
            arms = [i \in 0..(n - 1) |-> Arm(BindingArmPat(i, t[i].shape), t[i].guard, t[i].body)]
    /\ InitCheck

SpecBindings == InitBindings /\ [][Next]_vars

----------------------------------------------------------------------------
(* Properties of check on matches over integers and slices (Spec) *)

\* eq has returned true: search_same keeps the pair and the lint reports it
Accepted == pc = "returned" /\ result

min_index == Min(lindex, rindex)

max_index == lindex + rindex - min_index

Between == (min_index + 1)..(max_index - 1)

\* can_also_match(pat[k], pat[m]) is true
Blocks(k, m) == can_also_match(from_pat(arms[k].pat), from_pat(arms[m].pat)) = "true"

\* C1 as stated: for an accepted pair (i, j), no arm strictly between them
\* overlaps arm i and none overlaps arm j (both, for every arm between).
MergeSafetyBothSides ==
    Accepted => \A k \in Between : ~Blocks(k, min_index) /\ ~Blocks(k, max_index)

\* C1 amended: for an accepted pair (i, j), no arm strictly between them
\* overlaps arm i, or no arm strictly between them overlaps arm j; that is
\* forward_block[i] >= j or backward_block[j] <= i.
MergeSafety ==
    Accepted =>
        /\ \/ \A k \in Between : ~Blocks(k, min_index)
           \/ \A k \in Between : ~Blocks(k, max_index)
        /\ \/ forwards_blocking_idxs[min_index] >= max_index
           \/ backwards_blocking_idxs[max_index] <= min_index

\* arms 0 and 2 are accepted although arm 1 overlaps arm 0 (and not arm 2)
MergeSafetyWitness ==
    /\ Accepted
    /\ min_index = 0
    /\ max_index = 2
    /\ Blocks(1, 0)
    /\ ~Blocks(1, 2)

\* the values a scrutinee over the integers takes
Values == 0..(MaxArmLit + 1)

IntKinds == {"Wild", "LitInt", "Range", "Or"}

\* every arm is a pattern over the integers
IntMatch ==
    \A i \in DOMAIN arms :
        LET p == from_pat(arms[i].pat)
        IN  /\ p.kind \in IntKinds
            /\ p.kind = "Or" => \A k \in 1..Len(p.pats) : p.pats[k].kind \in {"Wild", "LitInt", "Range"}

RECURSIVE Matches(_, _)

\* the value semantics of a canonical pattern over the integers
Matches(p, v) ==
    CASE p.kind = "Wild" -> TRUE
      [] p.kind = "LitInt" -> v = p.val
      [] p.kind = "Range" ->
            /\ p.range.start <= v
            /\ IF p.range.bounds = Included THEN v <= p.range.end ELSE v < p.range.end
      [] p.kind = "Or" -> \E k \in 1..Len(p.pats) : Matches(p.pats[k], v)

\* the arms as <<canonical pattern, body>>, in order
Rows == [k \in 1..NumArms(arms) |-> <<from_pat(arms[k - 1].pat), arms[k - 1].body>>]

\* the body of the first row that matches v; <<>> when none does
Fires(rows, v) ==
    LET hits == {k \in 1..Len(rows) : Matches(rows[k][1], v)}
    IN  IF hits = {}
        THEN <<>>
        ELSE rows[CHOOSE k \in hits : \A h \in hits : k <= h][2]

\* the rows without row k
Without(rows, k) == [m \in 1..(Len(rows) - 1) |-> IF m < k THEN rows[m] ELSE rows[m + 1]]

\* the match with `pat[i] | pat[j]` standing at index `at` and the other arm removed
MergedRows(rows, at) ==
    LET i == min_index + 1
        j == max_index + 1
        merged == <<Or(<<rows[i][1], rows[j][1]>>), rows[i][2]>>
    IN  Without([rows EXCEPT ![at + 1] = merged], IF at = min_index THEN j ELSE i)

\* every value fires the same body in the merged match as in the original
PreservedAt(at) ==
    LET rows == Rows
        merged == MergedRows(rows, at)
    IN  \A v \in Values : Fires(merged, v) = Fires(rows, v)

\* C2: can_also_match is true whenever some value matches both patterns, and
\* for every accepted pair (i, j) the merged arm `pat[i] | pat[j]` can stand
\* at index i or at index j so that every value fires the same body as before.
\* The patterns never change, so the first part is stated where the search
\* stands between two comparisons.
MergePreservesFirstMatch ==
    /\ (pc = "search" /\ IntMatch) =>
            LET rows == Rows
            IN  \A a \in DOMAIN arms, b \in DOMAIN arms :
                    (\E v \in Values : Matches(rows[a + 1][1], v) /\ Matches(rows[b + 1][1], v))
                        => can_also_match(rows[a + 1][1], rows[b + 1][1]) = "true"
    /\ (Accepted /\ IntMatch) => PreservedAt(min_index) \/ PreservedAt(max_index)

\* an accepted pair with an arm of another body between them, where only
\* the merge at index i keeps every value's body
MergePreservesWitness ==
    /\ IntMatch
    /\ Accepted
    /\ max_index = min_index + 2
    /\ arms[min_index + 1].body # arms[min_index].body
    /\ PreservedAt(min_index)
    /\ ~PreservedAt(max_index)

----------------------------------------------------------------------------
(* Properties of eq on arms that bind variables (SpecBindings) *)

InEq == pc \in {"eq_expr", "bindings_eq", "returned"}

\* C3: guard exclusion: for a pair of arms of which at least one has a
\* guard, eq returns false without comparing the bodies.
GuardExclusion ==
    (InEq /\ (arms[lindex].guard \/ arms[rindex].guard)) => (pc = "returned" /\ ~result)

\* two neighbouring arms with the same body, the left one guarded, rejected
GuardExclusionWitness ==
    /\ pc = "returned"
    /\ ~result
    /\ arms[lindex].guard
    /\ ~arms[rindex].guard
    /\ rindex = lindex + 1
    /\ arms[lindex].body = arms[rindex].body
    /\ arms[lindex].body = <<Const("1")>>

\* the name an arm's only binding has
OnlyBinding(i) == CHOOSE id \in pat_bindings(arms[i].pat) : TRUE

\* the two bodies are the same tree except that each names its own arm's
\* binding where the other names its own, and they do so at least once
BodiesCorrespond ==
    LET lbody == arms[lindex].body
        rbody == arms[rindex].body
    IN  /\ Len(lbody) = Len(rbody)
        /\ \A k \in 1..Len(lbody) :
            \/ lbody[k].kind = "Const" /\ rbody[k] = lbody[k]
            \/ /\ path_to_local(lindex, lbody[k]) = Some(OnlyBinding(lindex))
               /\ path_to_local(rindex, rbody[k]) = Some(OnlyBinding(rindex))
        /\ \E k \in 1..Len(lbody) : lbody[k].kind = "Local"

\* eq has returned on two unguarded arms that pass the window test, whose
\* patterns bind one variable each, of the same type, the bodies corresponding
OneBindingEach ==
    /\ pc = "returned"
    /\ ~arms[lindex].guard
    /\ ~arms[rindex].guard
    /\ window(min_index, max_index)
    /\ Cardinality(pat_bindings(arms[lindex].pat)) = 1
    /\ Cardinality(pat_bindings(arms[rindex].pat)) = 1
    /\ OnlyBinding(lindex).ty = OnlyBinding(rindex).ty
    /\ BodiesCorrespond

\* C6 as stated: such a pair whose two bindings have different names
\* (`P(x, _) => x + 1` and `P(y, _) => y + 1`) is accepted.
RenamedBindingsAccepted ==
    (OneBindingEach /\ OnlyBinding(lindex).name # OnlyBinding(rindex).name) => result

\* C6 amended: such a pair is accepted when the two bindings have the same
\* name, and rejected when their names differ.
SameNameBindingsAccepted ==
    OneBindingEach => (result <=> OnlyBinding(lindex).name = OnlyBinding(rindex).name)

\* `P(x, _) => x + 1` twice, accepted
SameNameBindingsWitness ==
    /\ OneBindingEach
    /\ result
    /\ arms[lindex].body = <<Local("x"), Const("1")>>
    /\ local_map = insert(<<>>, OnlyBinding(lindex), OnlyBinding(rindex))

\* the pairs of locals the traversal has compared
ComparedLocals ==
    LET lbody == arms[lindex].body
        rbody == arms[rindex].body
    IN  {<<path_to_local(lindex, lbody[k])[1], path_to_local(rindex, rbody[k])[1]>> :
            k \in {m \in 1..Min(Len(lbody), Len(rbody)) :
                        lbody[m].kind = "Local" /\ rbody[m].kind = "Local"}}

\* C7: binding correspondence injectivity: the map never holds two left
\* bindings with the same right binding, and over the whole traversal of an
\* accepted pair no left local was compared with two right locals, nor two
\* left locals with one right local.
CorrespondenceInjective ==
    /\ \A a \in keys(local_map), b \in keys(local_map) :
            local_map[a] = local_map[b] => a = b
    /\ (InEq /\ Accepted) =>
            \A p \in ComparedLocals, q \in ComparedLocals : (p[1] = q[1]) <=> (p[2] = q[2])

\* an accepted pair whose map pairs two bindings with two bindings
CorrespondenceWitness ==
    /\ Accepted
    /\ Cardinality(keys(local_map)) = 2
    /\ Cardinality(values(local_map)) = 2

\* C10: closure check on bindings: for an accepted pair the keys of the map
\* are exactly the bindings of the left pattern and its values exactly the
\* bindings of the right pattern; a pair with a binding its body never
\* references is rejected.
ClosureOnBindings ==
    Accepted =>
        /\ keys(local_map) = pat_bindings(arms[lindex].pat)
        /\ values(local_map) = pat_bindings(arms[rindex].pat)

\* `P(x, _) => 1` twice: the bodies are equal, the binding is never
\* referenced, and eq returns false from bindings_eq
ClosureOnBindingsWitness ==
    /\ pc = "returned"
    /\ ~result
    /\ ~arms[lindex].guard
    /\ ~arms[rindex].guard
    /\ arms[lindex].body = <<Const("1")>>
    /\ arms[rindex].body = <<Const("1")>>
    /\ pos = 2
    /\ pat_bindings(arms[lindex].pat) # {}

----------------------------------------------------------------------------
(* Properties of the range queries (SpecRange) *)

\* C8: range containment consistency: for every range r and integer x,
\* contains(r, x) equals overlaps(r, the inclusive range [x, x]), also for
\* exclusive ranges with start = end and for ranges with start > end.
RangeContainmentConsistency ==
    (rq.contained # None /\ rq.overlapped # None) => rq.contained = rq.overlapped

\* both answers are in, for an exclusive range that contains the point
RangeContainmentWitness ==
    /\ rq.contained = Some(TRUE)
    /\ rq.overlapped = Some(TRUE)
    /\ rq.range.bounds = Excluded

----------------------------------------------------------------------------
(* Properties of the overlap queries (SpecOverlap) *)

Answered == oq.res \in {"true", "false", "panic"}

\* C4: overlap symmetry: can_also_match(p, q) equals can_also_match(q, p)
\* for all canonical patterns p and q.
OverlapSymmetry ==
    Answered => oq.res = can_also_match(oq.rpat, oq.lpat)

\* slice patterns over wildcards and integer literals, with and without `..`
SliceElems == {PWild} \cup {PLit(IntLit(v)) : v \in 0..MaxLit}

SliceHirs ==
    {PSlice(a, w, b) : a \in Seqs(SliceElems, MaxLen), w \in {None, Some(PWild)}, b \in {<<>>}}

SlicePats == {from_pat(h) : h \in SliceHirs}

\* C5: totality: can_also_match returns a boolean and never aborts for two
\* patterns of one match, here two slice patterns.
CanAlsoMatchTotal ==
    (Answered /\ oq.lpat \in SlicePats /\ oq.rpat \in SlicePats) => oq.res # "panic"

BothSequences ==
    /\ Answered
    /\ oq.lpat.kind = "Sequence"
    /\ oq.rpat.kind = "Sequence"
    /\ oq.lpat.path = oq.rpat.path

\* the front sections overlap pairwise, zipped from the start
FrontsOverlap(lfront, rfront) ==
    \A k \in 1..Min(Len(lfront), Len(rfront)) :
        can_also_match(lfront[k], rfront[k]) = "true"

\* the back sections overlap pairwise, zipped from the end
BacksOverlap(lback, rback) ==
    \A k \in 1..Min(Len(lback), Len(rback)) :
        can_also_match(lback[Len(lback) + 1 - k], rback[Len(rback) + 1 - k]) = "true"

\* the element list cut at index idx (None: all of it is the front section)
FrontAt(pats, idx) == IF idx = None THEN pats ELSE SubSeq(pats, 1, idx[1])

BackAt(pats, idx) == IF idx = None THEN <<>> ELSE SubSeq(pats, idx[1] + 1, Len(pats))

\* the index a side is cut at when a side without a rest index borrows the other's
BorrowedIdx(p, q) == IF p.wild_idx # None THEN p.wild_idx ELSE q.wild_idx

\* C9 as stated: each side is split at its OWN rest index, a side without one
\* being all front; the answer is true iff the fronts and the backs overlap.
\* Stated for the comparisons that return.
SequenceRuleOwnIndex ==
    (BothSequences /\ oq.res # "panic") =>
        oq.res = Bool(/\ FrontsOverlap(FrontAt(oq.lpat.pats, oq.lpat.wild_idx),
                                       FrontAt(oq.rpat.pats, oq.rpat.wild_idx))
                      /\ BacksOverlap(BackAt(oq.lpat.pats, oq.lpat.wild_idx),
                                      BackAt(oq.rpat.pats, oq.rpat.wild_idx)))

\* C9 amended: each side is split at its own rest index or, when it has none,
\* at the other side's; the comparison aborts when that index is past the end
\* of the side, and otherwise is true iff the fronts and the backs overlap.
SequenceRule ==
    BothSequences =>
        LET lidx == BorrowedIdx(oq.lpat, oq.rpat)
            ridx == BorrowedIdx(oq.rpat, oq.lpat)
        IN  IF \/ lidx # None /\ lidx[1] > Len(oq.lpat.pats)
               \/ ridx # None /\ ridx[1] > Len(oq.rpat.pats)
            THEN oq.res = "panic"
            ELSE oq.res = Bool(/\ FrontsOverlap(FrontAt(oq.lpat.pats, lidx),
                                                FrontAt(oq.rpat.pats, ridx))
                               /\ BacksOverlap(BackAt(oq.lpat.pats, lidx),
                                               BackAt(oq.rpat.pats, ridx)))

\* only the left side has a rest index, the fronts overlap, and the elements
\* after the borrowed index decide the answer
SequenceRuleWitness ==
    /\ BothSequences
    /\ oq.lpat.wild_idx # None
    /\ oq.rpat.wild_idx = None
    /\ FrontsOverlap(FrontAt(oq.lpat.pats, oq.lpat.wild_idx), oq.rpat.pats)
    /\ oq.res = "false"

\* for information: symmetry among the comparisons that return both ways
OverlapSymmetryWhenTotal ==
    (Answered /\ oq.res # "panic" /\ can_also_match(oq.rpat, oq.lpat) # "panic")
        => oq.res = can_also_match(oq.rpat, oq.lpat)

====
